---- MODULE Spec2Model ----
(***************************************************************************)
(* safetensor-info: one run of main() on one file.                         *)
(*                                                                         *)
(* main() validates the path, calls get_safetensor_info(), which tries the *)
(* four backends of frameworks_to_try in turn inside `with safe_open(...)`,*)
(* and renders the returned info dict as text or JSON.                     *)
(*                                                                         *)
(* The file is chosen in Init and is not modified during the inspection.   *)
(* safe_open's decoding/validation of the header is library code that is   *)
(* not part of the sources; it is modelled after sections 4.1-4.3 of the   *)
(* specification (HeaderError).  Whether a backend is usable (installed,   *)
(* able to materialise a tensor) is an input of each attempt.              *)
(***************************************************************************)
EXTENDS Integers, Sequences, FiniteSets, TLC

\* ------------------------------------------------------------------ bounds

\* Largest number of tensor entries in a header.
MaxTensors == 2

\* ------------------------------------------------------------------ inputs

TensorNames == {"a", "b", "c"}
DtypeCodes == {"F32", "U8"}
Shapes == {<<>>, <<4>>}
OffsetPairs == {<<0, 4>>, <<2, 6>>, <<4, 8>>}

\* Python's None for an optional mapping, and mappings as ordered item lists.
NoneMap == [present |-> FALSE, items |-> <<>>]
EmptyMap == [present |-> TRUE, items |-> <<>>]
PtMap == [present |-> TRUE, items |-> << <<"format", "pt">> >>]
MetadataValues == {NoneMap, EmptyMap, PtMap}

\* Header entries: every combination of the above, the entries of the
\* specification's size-mismatch and end-to-end examples, and one entry with
\* a dtype code that no registry knows.
Entries ==
    [dtype : DtypeCodes, shape : Shapes, data_offsets : OffsetPairs]
    \cup {[dtype |-> "F32", shape |-> <<2, 3>>, data_offsets |-> <<0, 16>>],
          [dtype |-> "F32", shape |-> <<2, 2>>, data_offsets |-> <<0, 16>>],
          [dtype |-> "Q4", shape |-> <<4>>, data_offsets |-> <<0, 4>>]}

\* Sequences of pairwise distinct tensor names, in header key order.
KeyOrders ==
    {s \in UNION {[1..n -> TensorNames] : n \in 0..MaxTensors} :
        \A i, j \in DOMAIN s : i # j => s[i] # s[j]}

RangeOf(s) == {s[i] : i \in DOMAIN s}

\* Files whose length prefix and header JSON decode: 8 + 64 header bytes and
\* 8 payload bytes.
WellFormedFiles ==
    UNION {[path : {"file"}, size : {80}, header_length : {64},
            json_ok : {TRUE}, metadata : MetadataValues, keys : {ks},
            entries : [RangeOf(ks) -> Entries]] : ks \in KeyOrders}

\* A missing path, a directory, a file shorter than its declared header, and
\* a header that is not a JSON object.
BrokenFiles ==
    {[path |-> p, size |-> sz, header_length |-> 64, json_ok |-> j,
      metadata |-> NoneMap, keys |-> <<>>, entries |-> <<>>] :
        p \in {"file", "missing", "directory"}, sz \in {40, 80},
        j \in BOOLEAN} \ WellFormedFiles

Files == WellFormedFiles \cup BrokenFiles

\* ------------------------------------------------------- library: safe_open

\* Dtype registry (specification 4.2): code -> byte width, 0 for "not found".
DtypeByteWidth(code) ==
    CASE code \in {"F64", "I64"} -> 8
      [] code \in {"F32", "I32"} -> 4
      [] code \in {"F16", "BF16", "I16"} -> 2
      [] code \in {"I8", "U8", "BOOL", "F8_E4M3", "F8_E5M2"} -> 1
      [] OTHER -> 0

RECURSIVE Product(_)
\* product(shape), 1 for the empty shape.
Product(shape) ==
    IF shape = <<>> THEN 1 ELSE Head(shape) * Product(Tail(shape))

\* Header decoder (specification 4.1).
DecodeError(f) ==
    IF f.size < 8 \/ f.header_length + 8 > f.size THEN "TruncatedFile"
    ELSE IF ~f.json_ok THEN "MalformedHeader"
    ELSE "ok"

PayloadLength(f) == f.size - 8 - f.header_length

\* Per-entry checks of the entry validator (specification 4.3).
EntryError(e) ==
    IF e.data_offsets[1] > e.data_offsets[2] THEN "MalformedHeader"
    ELSE IF DtypeByteWidth(e.dtype) = 0 THEN "UnknownDtype"
    ELSE IF e.data_offsets[2] - e.data_offsets[1]
              # Product(e.shape) * DtypeByteWidth(e.dtype) THEN "SizeMismatch"
    ELSE "ok"

\* Two half-open byte ranges intersect.  Sorting by begin and requiring each
\* begin >= the previous end rejects exactly the files with such a pair.
Overlap(r1, r2) == r1[1] < r2[2] /\ r2[1] < r1[2]

OverlapError(f) ==
    IF \E i, j \in DOMAIN f.keys :
          i # j /\ Overlap(f.entries[f.keys[i]].data_offsets,
                           f.entries[f.keys[j]].data_offsets)
    THEN "OverlappingTensors" ELSE "ok"

RangeError(f) ==
    IF \E i \in DOMAIN f.keys :
          f.entries[f.keys[i]].data_offsets[2] > PayloadLength(f)
    THEN "OffsetOutOfRange" ELSE "ok"

\* The first failure of decoding and validating the header, or "ok".
HeaderError(f) ==
    IF DecodeError(f) # "ok" THEN DecodeError(f)
    ELSE LET bad == {i \in DOMAIN f.keys : EntryError(f.entries[f.keys[i]]) # "ok"}
         IN  IF bad # {}
             THEN EntryError(f.entries[f.keys[CHOOSE i \in bad : \A j \in bad : i <= j]])
             ELSE IF OverlapError(f) # "ok" THEN OverlapError(f)
             ELSE RangeError(f)

\* --------------------------------------------------- library: tensor objects

\* The element type's name in the backend's own vocabulary.
ElementName(code) ==
    CASE code = "F32" -> "float32"
      [] code = "U8" -> "uint8"
      [] OTHER -> code

\* str(tensor.dtype) of the tensor a backend materialises.
DtypeStr(framework, code) ==
    CASE framework = "pt" -> <<"torch.", ElementName(code)>>
      [] framework = "tf" -> <<"<dtype: '", ElementName(code), "'>">>
      [] OTHER -> <<ElementName(code)>>

\* f.get_tensor(key): the materialised tensor of a header entry.
GetTensor(f, framework, key) ==
    [shape |-> f.entries[key].shape,
     dtype |-> f.entries[key].dtype,
     framework |-> framework]

\* tensor.numel()
Numel(tensor) == Product(tensor.shape)

\* tensor.nbytes
Nbytes(tensor) == Numel(tensor) * DtypeByteWidth(tensor.dtype)

\* ---------------------------------------------------------------- program

VARIABLES
    file,          \* the file on disk (fixed for the run)
    pc,            \* where main / get_safetensor_info stands
    fw,            \* index into frameworks_to_try of the current attempt
    info,          \* the info dict of get_safetensor_info
    tensor_info,   \* the attempt's local tensor_info dict
    total_params,  \* the attempt's local total_params
    pos,           \* position of the `for key in f.keys()` loop
    last_error,    \* last_error
    handles,       \* handles on the file held open by safe_open
    attempts,      \* history: the outcome of every backend attempt so far
    writer,        \* history: the attempt that last wrote each field of info
    out            \* what main printed and its exit status

vars == <<file, pc, fw, info, tensor_info, total_params, pos, last_error,
          handles, attempts, writer, out>>

\* A preference list with numpy moved to the front.
FrameworksNumpyFirst == <<"numpy", "pt", "tf", "flax">>

frameworks_to_try == <<"pt", "tf", "flax", "numpy">>

NoError == [kind |-> "None", framework |-> "None", raised_by |-> "None"]

FilePath == "model.safetensors"

\* The info dict as constructed at the top of get_safetensor_info.
InitialInfo(f) ==
    [file_path |-> FilePath,
     file_size |-> f.size,
     metadata |-> NoneMap,
     tensors |-> <<>>,
     tensor_count |-> 0,
     total_parameters |-> 0]

NoOutput == [stdout |-> <<>>, stderr |-> <<>>, exit_code |-> -1]

\* Python truthiness of an optional mapping: None and {} are both false.
Truthy(m) == m.present /\ Len(m.items) > 0

\* A dict that puts a new key in front of the older ones.
DictSetPrepends(d, key, value) ==
    IF \E i \in DOMAIN d : d[i].key = key
    THEN [i \in DOMAIN d |-> IF d[i].key = key
                             THEN [key |-> key, value |-> value] ELSE d[i]]
    ELSE <<[key |-> key, value |-> value]>> \o d

\* d[key] = value on an insertion-ordered dict kept as a list of items.
DictSet(d, key, value) ==
    IF \E i \in DOMAIN d : d[i].key = key
    THEN [i \in DOMAIN d |-> IF d[i].key = key
                             THEN [key |-> key, value |-> value] ELSE d[i]]
    ELSE Append(d, [key |-> key, value |-> value])

\* The keys of an insertion-ordered dict, in iteration order.
DictKeys(d) == [i \in DOMAIN d |-> d[i].key]

\* f.keys(): the tensor names as enumerated from the header.
Keys(f) == f.keys

Init ==
    /\ file \in Files
    /\ pc = "main"
    /\ fw = 1
    /\ info = InitialInfo(file)
    /\ tensor_info = <<>>
    /\ total_params = 0
    /\ pos = 1
    /\ last_error = NoError
    /\ handles = 0
    /\ attempts = <<>>
    /\ writer = [metadata |-> 0, tensors |-> 0, tensor_count |-> 0,
                 total_parameters |-> 0]
    /\ out = NoOutput

\* ---------------------------------------------------------------- main()

\* main: the path checks before the try block fail.
MainValidateFail ==
    /\ pc = "main"
    /\ file.path # "file"
    /\ pc' = "exit"
    /\ out' = [stdout |-> <<>>,
               stderr |-> <<IF file.path = "missing" THEN "not found"
                            ELSE "is not a file">>,
               exit_code |-> 1]
    /\ UNCHANGED <<file, fw, info, tensor_info, total_params, pos, last_error,
                   handles, attempts, writer>>

\* main calls get_safetensor_info, which builds info and enters the loop.
GetInfoStart ==
    /\ pc = "main"
    /\ file.path = "file"
    /\ info' = InitialInfo(file)
    /\ last_error' = NoError
    /\ fw' = 1
    /\ pc' = "try"
    /\ UNCHANGED <<file, tensor_info, total_params, pos, handles, attempts,
                   writer, out>>

\* ------------------------------------------------- get_safetensor_info()

\* A with block whose exit keeps the handle.
ReleaseLeaks(h) == h

\* __exit__ of `with safe_open(...)`: the handle is given back.
Release(h) == h - 1

\* An except clause that keeps the first error it saw.
RecordErrorKeepsFirst(last, e) == IF last = NoError THEN e ELSE last

\* `last_error = e` in the except clause.
RecordError(last, e) == e

\* The value of `framework` after `continue`: the next backend, or past the
\* end of the list, where the for loop's else clause runs.
NextFramework(k) == k + 1

\* A loop without the else clause: when the list is exhausted the function
\* falls through to `return info`.
ExceptContinueNoRaise(e) ==
    /\ last_error' = RecordError(last_error, e)
    /\ attempts' = Append(attempts,
                          [framework |-> frameworks_to_try[fw], ok |-> FALSE,
                           error |-> e])
    /\ IF NextFramework(fw) <= Len(frameworks_to_try)
       THEN fw' = NextFramework(fw) /\ pc' = "try"
       ELSE fw' = fw /\ pc' = "returned"

\* except Exception as e: last_error = e; continue.  When the list is
\* exhausted the for loop's else clause raises RuntimeError.
ExceptContinue(e) ==
    /\ last_error' = RecordError(last_error, e)
    /\ attempts' = Append(attempts,
                          [framework |-> frameworks_to_try[fw], ok |-> FALSE,
                           error |-> e])
    /\ IF NextFramework(fw) <= Len(frameworks_to_try)
       THEN fw' = NextFramework(fw) /\ pc' = "try"
       ELSE fw' = fw /\ pc' = "raised"

\* safe_open(file_path, framework=framework) succeeds: the header decodes and
\* validates and the backend is usable.
SafeOpenOk ==
    /\ pc = "try"
    /\ HeaderError(file) = "ok"
    /\ handles' = handles + 1
    /\ pc' = "with"
    /\ UNCHANGED <<file, fw, info, tensor_info, total_params, pos, last_error,
                   attempts, writer, out>>

\* safe_open raises: the header is rejected, or the backend is not usable.
SafeOpenFail ==
    /\ pc = "try"
    /\ ExceptContinue([kind |-> IF HeaderError(file) # "ok"
                                THEN HeaderError(file) ELSE "BackendError",
                       framework |-> frameworks_to_try[fw],
                       raised_by |-> "safe_open"])
    /\ UNCHANGED <<file, info, tensor_info, total_params, pos, handles,
                   writer, out>>

\* info['metadata'] after `metadata = f.metadata(); if metadata: ...`.
StoreMetadata(old, metadata) ==
    IF Truthy(metadata) THEN metadata ELSE old

\* Locals created once, before the loop over the backends.
StaleLocals(ti, tp) == [tensor_info |-> ti, total_params |-> tp]

\* `tensor_info = {}; total_params = 0` inside the with block.
FreshLocals(ti, tp) == [tensor_info |-> <<>>, total_params |-> 0]

\* Lines 56-62: metadata, then the fresh tensor_info and total_params.
ReadMetadata ==
    /\ pc = "with"
    /\ info' = [info EXCEPT !.metadata = StoreMetadata(@, file.metadata)]
    /\ writer' = [writer EXCEPT !.metadata =
                     IF Truthy(file.metadata) THEN fw ELSE @]
    /\ tensor_info' = FreshLocals(tensor_info, total_params).tensor_info
    /\ total_params' = FreshLocals(tensor_info, total_params).total_params
    /\ pos' = 1
    /\ pc' = "loop"
    /\ UNCHANGED <<file, fw, last_error, handles, attempts, out>>

\* An entry whose size is the element count, not the byte count.
TensorRecordSizeInElements(tensor) ==
    [shape |-> tensor.shape,
     dtype |-> DtypeStr(tensor.framework, tensor.dtype),
     parameters |-> Numel(tensor),
     size_bytes |-> Numel(tensor)]

\* The entry of tensor_info built from one materialised tensor.
TensorRecord(tensor) ==
    [shape |-> tensor.shape,
     dtype |-> DtypeStr(tensor.framework, tensor.dtype),
     parameters |-> Numel(tensor),
     size_bytes |-> Nbytes(tensor)]

\* A total that counts tensors.
AddParamsCountsTensors(total, numel) == total + 1

\* total_params += numel
AddParams(total, numel) == total + numel

\* One iteration of `for key in f.keys()`.
ReadTensor ==
    /\ pc = "loop"
    /\ pos <= Len(Keys(file))
    /\ LET key == Keys(file)[pos]
           tensor == GetTensor(file, frameworks_to_try[fw], key)
       IN  /\ tensor_info' = DictSet(tensor_info, key, TensorRecord(tensor))
           /\ total_params' = AddParams(total_params, Numel(tensor))
    /\ pos' = pos + 1
    /\ UNCHANGED <<file, pc, fw, info, last_error, handles, attempts, writer,
                   out>>

\* An iteration raises (get_tensor / numel on a backend that cannot serve
\* it): the with block is left, then the except clause runs.
ReadTensorFail ==
    /\ pc = "loop"
    /\ pos <= Len(Keys(file))
    /\ handles' = Release(handles)
    /\ ExceptContinue([kind |-> "BackendError",
                       framework |-> frameworks_to_try[fw],
                       raised_by |-> "get_tensor"])
    /\ UNCHANGED <<file, info, tensor_info, total_params, pos, writer, out>>

\* Lines 78-81 and 91: the loop is done, the results are stored, break, the
\* with block is left and info is returned.
Finish ==
    /\ pc = "loop"
    /\ pos > Len(Keys(file))
    /\ info' = [info EXCEPT !.tensors = tensor_info,
                            !.tensor_count = Len(tensor_info),
                            !.total_parameters = total_params]
    /\ writer' = [writer EXCEPT !.tensors = fw, !.tensor_count = fw,
                                !.total_parameters = fw]
    /\ handles' = Release(handles)
    /\ attempts' = Append(attempts,
                          [framework |-> frameworks_to_try[fw], ok |-> TRUE,
                           error |-> NoError])
    /\ pc' = "returned"
    /\ UNCHANGED <<file, fw, tensor_info, total_params, pos, last_error, out>>

\* ------------------------------------------------------------- rendering

Units == <<"B", "KB", "MB", "GB", "TB">>

RECURSIVE FormatBytesFrom(_, _)
\* The loop of format_bytes on a count kept in tenths (the .1f digit).
FormatBytesFrom(tenths, i) ==
    IF i > Len(Units) THEN <<tenths, "PB">>
    ELSE IF tenths < 10240 THEN <<tenths, Units[i]>>
    ELSE FormatBytesFrom(tenths \div 1024, i + 1)

\* format_bytes(bytes_count): <<value in tenths, unit>>.
FormatBytes(bytes_count) == FormatBytesFrom(bytes_count * 10, 1)

RECURSIVE Grouped(_)
\* f"{n:,}": the digit groups of n, most significant first.
Grouped(n) ==
    IF n < 1000 THEN <<n>> ELSE Append(Grouped(n \div 1000), n % 1000)

Line(tag, val) == [tag |-> tag, val |-> val]

RECURSIVE Flatten(_)
Flatten(blocks) ==
    IF blocks = <<>> THEN <<>> ELSE Head(blocks) \o Flatten(Tail(blocks))

\* The lines printed for one tensor (format_as_text and main print the same).
TensorLines(item) ==
    <<Line("name", item.key),
      Line("Shape", item.value.shape),
      Line("Dtype", item.value.dtype),
      Line("Parameters", Grouped(item.value.parameters)),
      Line("Size", FormatBytes(item.value.size_bytes)),
      Line("blank", <<>>)>>

\* `for name, tensor_info in tensors.items()`: the dict's own order.
TensorSection(tensors) ==
    Flatten([i \in DOMAIN tensors |-> TensorLines(tensors[i])])

MetadataLines(metadata) ==
    [i \in DOMAIN metadata.items |-> Line("meta", metadata.items[i])]

\* format_as_text(info)
FormatAsText(i) ==
    <<Line("SafeTensor File", i.file_path),
      Line("File Size", <<FormatBytes(i.file_size), Grouped(i.file_size)>>),
      Line("Tensor Count", i.tensor_count),
      Line("Total Parameters", Grouped(i.total_parameters)),
      Line("blank", <<>>)>>
    \o (IF Truthy(i.metadata)
        THEN <<Line("=== METADATA ===", <<>>)>> \o MetadataLines(i.metadata)
             \o <<Line("blank", <<>>)>>
        ELSE <<Line("=== METADATA ===", <<>>), Line("No metadata found", <<>>),
               Line("blank", <<>>)>>)
    \o (IF Len(i.tensors) > 0
        THEN <<Line("=== TENSORS ===", <<>>)>> \o TensorSection(i.tensors)
        ELSE <<>>)

\* format_as_json(info) on the unfiltered info: the dict's items in order.
FormatAsJson(i) ==
    <<Line("file_path", i.file_path),
      Line("file_size", i.file_size),
      Line("metadata", i.metadata),
      Line("tensors", i.tensors),
      Line("tensor_count", i.tensor_count),
      Line("total_parameters", i.total_parameters),
      Line("file_size_human", FormatBytes(i.file_size)),
      Line("total_parameters_human", Grouped(i.total_parameters))>>

\* What main prints for a returned info (lines 177-214).  The filtered dicts
\* have no 'file_size', so format_as_json raises KeyError on them.
Rendered(i, format, metadata_only, tensors_only) ==
    IF format = "json"
    THEN IF metadata_only \/ tensors_only
         THEN [stdout |-> <<>>, stderr |-> <<"Error", "KeyError", "file_size">>,
               exit_code |-> 1]
         ELSE [stdout |-> FormatAsJson(i), stderr |-> <<>>, exit_code |-> 0]
    ELSE [stdout |->
            IF metadata_only /\ Truthy(i.metadata)
            THEN <<Line("=== METADATA ===", <<>>)>> \o MetadataLines(i.metadata)
            ELSE IF metadata_only THEN <<Line("No metadata found", <<>>)>>
            ELSE IF tensors_only
            THEN <<Line("=== TENSORS ===", <<>>)>> \o TensorSection(i.tensors)
            ELSE FormatAsText(i),
          stderr |-> <<>>, exit_code |-> 0]

\* main renders the info that get_safetensor_info returned.
Render ==
    /\ pc = "returned"
    /\ \E format \in {"json", "text"}, metadata_only, tensors_only \in BOOLEAN :
          out' = Rendered(info, format, metadata_only, tensors_only)
    /\ pc' = "exit"
    /\ UNCHANGED <<file, fw, info, tensor_info, total_params, pos, last_error,
                   handles, attempts, writer>>

\* The RuntimeError raised by the for loop's else clause.
RuntimeErrorOf(last) ==
    <<"Error reading safetensor file with all frameworks. Last error", last>>

\* main's except clause: the message on stderr, exit status 1.
MainError ==
    /\ pc = "raised"
    /\ out' = [stdout |-> <<>>,
               stderr |-> <<"Error", RuntimeErrorOf(last_error)>>,
               exit_code |-> 1]
    /\ pc' = "exit"
    /\ UNCHANGED <<file, fw, info, tensor_info, total_params, pos, last_error,
                   handles, attempts, writer>>

Next ==
    \/ MainValidateFail
    \/ GetInfoStart
    \/ SafeOpenOk
    \/ SafeOpenFail
    \/ ReadMetadata
    \/ ReadTensor
    \/ ReadTensorFail
    \/ Finish
    \/ Render
    \/ MainError

Spec == Init /\ [][Next]_vars

\* ------------------------------------------------- what a header describes

\* The tensors a header describes, in key order, as backend `framework`
\* reports them: parameters from the shape, size from the byte range.
ExpectedTensors(f, framework) ==
    [i \in DOMAIN f.keys |->
        [key |-> f.keys[i],
         value |-> [shape |-> f.entries[f.keys[i]].shape,
                    dtype |-> DtypeStr(framework, f.entries[f.keys[i]].dtype),
                    parameters |-> Product(f.entries[f.keys[i]].shape),
                    size_bytes |-> f.entries[f.keys[i]].data_offsets[2]
                                   - f.entries[f.keys[i]].data_offsets[1]]]]

RECURSIVE SumParameters(_)
SumParameters(tensors) ==
    IF tensors = <<>> THEN 0
    ELSE Head(tensors).value.parameters + SumParameters(Tail(tensors))

\* Some byte belongs to both half-open ranges.
ShareAByte(r1, r2) ==
    \E x \in 0..16 : r1[1] <= x /\ x < r1[2] /\ r2[1] <= x /\ x < r2[2]

OffsetsOf(f, i) == f.entries[f.keys[i]].data_offsets

FailedAttempts == {i \in DOMAIN attempts : ~attempts[i].ok}

\* get_safetensor_info has returned its info dict to main.
Returned ==
    /\ pc \in {"returned", "exit"}
    /\ Len(attempts) > 0 /\ attempts[Len(attempts)].ok

\* get_safetensor_info has raised its RuntimeError.
Raised ==
    /\ pc \in {"raised", "exit"}
    /\ Len(attempts) > 0 /\ ~attempts[Len(attempts)].ok

\* The tensor names main printed, in the order printed.
PrintsTensors ==
    \E i \in DOMAIN out.stdout :
        out.stdout[i].tag \in {"=== TENSORS ===", "tensors", "Tensor Count"}

NamesPrinted ==
    IF \E i \in DOMAIN out.stdout : out.stdout[i].tag = "tensors"
    THEN DictKeys(out.stdout[CHOOSE i \in DOMAIN out.stdout :
                                 out.stdout[i].tag = "tensors"].val)
    ELSE LET names == SelectSeq(out.stdout, LAMBDA l : l.tag = "name")
         IN  [i \in DOMAIN names |-> names[i].val]

\* ----------------------------------------------------------------- claims

\* C1: an inspection is all-or-nothing.  Whenever get_safetensor_info has
\* returned, the header was accepted and every field of info is populated from
\* it (the metadata items, every tensor in full, the count and the total);
\* main has printed on stdout only after such a return; and when the function
\* raised, nothing was printed on stdout and the exit status is 1.
C1_AllOrNothing ==
    /\ (pc = "returned" \/ out.stdout # <<>>) =>
          /\ HeaderError(file) = "ok"
          /\ Returned
          /\ info.file_path = FilePath /\ info.file_size = file.size
          /\ info.metadata.items = file.metadata.items
          /\ info.tensors = ExpectedTensors(file, frameworks_to_try[fw])
          /\ info.tensor_count = Len(file.keys)
          /\ info.total_parameters = SumParameters(ExpectedTensors(file, "pt"))
    /\ out.stdout # <<>> => pc = "exit"
    /\ Raised => out.stdout = <<>> /\ (pc = "exit" => out.exit_code = 1)

\* C1 witness: a full two-tensor report was returned after an earlier
\* backend had failed in the middle of reading the tensors.
C1_Witness ==
    /\ pc = "returned"
    /\ Len(info.tensors) = 2
    /\ Truthy(info.metadata)
    /\ \E i \in FailedAttempts : attempts[i].error.raised_by = "get_tensor"

\* C2 as stated: the inspection fails fast.  Once an attempt has failed, no
\* further attempt is made, the inspection ends in failure and the error it
\* carries is the first one encountered.
C2_FailFast ==
    FailedAttempts # {} =>
        /\ Len(attempts) = 1
        /\ pc \in {"raised", "exit"}
        /\ last_error = attempts[1].error

\* C2 amended: a failure ends only the backend attempt it occurs in.  After a
\* failed attempt on pt, tf or flax the next backend is tried; the inspection
\* ends in failure only after the numpy attempt has failed, and the error it
\* carries is then the last one encountered.
C2_FailureEndsAttemptOnly ==
    \A i \in FailedAttempts :
        /\ i < 4 => \/ Len(attempts) > i
                    \/ pc \in {"try", "with", "loop"} /\ fw = i + 1
        /\ i = 4 => /\ Raised
                    /\ last_error = attempts[4].error
                    /\ last_error.framework = "numpy"

\* C2 witness: all four attempts failed on a file whose header is valid, the
\* first of them while reading a tensor, and the error raised is numpy's.
C2_Witness ==
    /\ pc = "raised"
    /\ HeaderError(file) = "ok"
    /\ attempts[1].error.raised_by = "get_tensor"
    /\ last_error.framework = "numpy"

\* C3: the tensors of a returned report, and the tensor names main prints
\* (text or JSON), are in exactly the order in which f.keys() enumerated them.
C3_OrderPreserved ==
    /\ Returned => DictKeys(info.tensors) = Keys(file)
    /\ (pc = "exit" /\ PrintsTensors) => NamesPrinted = Keys(file)

\* C3 witness: main printed the tensors of a file whose key order is neither
\* alphabetical nor the order of the offsets.
C3_Witness ==
    /\ pc = "exit"
    /\ PrintsTensors
    /\ Keys(file) = <<"b", "a">>
    /\ NamesPrinted = <<"b", "a">>
    /\ OffsetsOf(file, 1)[1] > OffsetsOf(file, 2)[1]

\* C4: in every returned report tensor_count is the number of tensor entries
\* and total_parameters is the sum of their parameters fields (0 if none).
C4_CountAndTotal ==
    Returned =>
        /\ info.tensor_count = Len(info.tensors)
        /\ info.total_parameters = SumParameters(info.tensors)
        /\ Len(info.tensors) = 0 => info.total_parameters = 0

\* C4 witness: a report with two tensors of 1 and 4 parameters, total 5.
C4_Witness ==
    /\ pc = "returned"
    /\ info.tensor_count = 2
    /\ info.total_parameters = 5
    /\ info.tensors[1].value.parameters # info.tensors[2].value.parameters

C6_TouchingAccepted ==
    /\ pc = "returned"
    /\ Len(file.keys) = 2
    /\ OffsetsOf(file, 1) = <<0, 4>> /\ OffsetsOf(file, 2) = <<4, 8>>

\* C7 as stated: the report's metadata is absent exactly when the header has
\* no __metadata__, so a missing map and a present, empty map give reports
\* that differ.
C7_AbsentDistinguishable ==
    Returned => (info.metadata.present <=> file.metadata.present)

\* C8: the inspection never holds more than one handle on the file, holds one
\* only inside the with block, and holds none when an attempt starts, after
\* an attempt failed, and once get_safetensor_info has returned or raised.
C8_HandleReleased ==
    /\ handles \in {0, 1}
    /\ handles = 1 <=> pc \in {"with", "loop"}
    /\ (Returned \/ Raised \/ pc = "try") => handles = 0

\* C8 witness: the function returned after one attempt failed inside the with
\* block and another failed in safe_open, with no handle left open.
C8_Witness ==
    /\ pc = "returned"
    /\ handles = 0
    /\ \E i \in FailedAttempts : attempts[i].error.raised_by = "get_tensor"
    /\ \E i \in FailedAttempts : attempts[i].error.raised_by = "safe_open"

\* C9: the backends are tried in the order pt, tf, flax, numpy; an attempt is
\* made only after all earlier ones failed and none after a success; the
\* function raises exactly when all four failed, and the message then carries
\* the error of the numpy attempt and no other.
C9_BackendOrder ==
    /\ Len(attempts) <= 4
    /\ \A i \in DOMAIN attempts :
          /\ attempts[i].framework = <<"pt", "tf", "flax", "numpy">>[i]
          /\ i < Len(attempts) => ~attempts[i].ok
    /\ pc \in {"try", "with", "loop"} =>
          /\ fw = Len(attempts) + 1
          /\ FailedAttempts = DOMAIN attempts
    /\ pc = "returned" => Returned
    /\ (Cardinality(FailedAttempts) = 4) <=> Raised
    /\ pc = "raised" => last_error = attempts[4].error
    /\ (pc = "exit" /\ Raised) =>
          /\ out.stderr = <<"Error", RuntimeErrorOf(attempts[4].error)>>
          /\ attempts[4].error.framework = "numpy"

\* C9 witness: pt, tf and flax failed and numpy succeeded.
C9_Witness ==
    /\ pc = "returned"
    /\ Len(attempts) = 4
    /\ attempts[4].framework = "numpy" /\ attempts[4].ok

\* C10: when a report is returned after failed attempts, tensors,
\* tensor_count and total_parameters were last written by the attempt that
\* succeeded; metadata was last written by that attempt too, or was written by
\* no attempt and is still None; and the whole report is the one that attempt
\* alone produces from the file.
C10_NoLeftovers ==
    (pc = "returned" /\ FailedAttempts # {}) =>
        /\ writer.tensors = fw
        /\ writer.tensor_count = fw
        /\ writer.total_parameters = fw
        /\ writer.metadata \in {0, fw}
        /\ writer.metadata = 0 => info.metadata = NoneMap
        /\ info = [InitialInfo(file) EXCEPT
                     !.metadata = StoreMetadata(@, file.metadata),
                     !.tensors = ExpectedTensors(file, frameworks_to_try[fw]),
                     !.tensor_count = Len(file.keys),
                     !.total_parameters =
                        SumParameters(ExpectedTensors(file, "pt"))]

\* C10 witness: pt stored the metadata and one tensor and then failed; tf
\* succeeded and returned the report.
C10_Witness ==
    /\ pc = "returned"
    /\ fw = 2
    /\ attempts[1].error.raised_by = "get_tensor"
    /\ Truthy(info.metadata)
    /\ Len(info.tensors) = 2

====
